---- MODULE Spec2Model ----
(***************************************************************************)
(* Model of the crate is_trait (src/lib.rs): the two macro_rules macros    *)
(* is_trait! and const_is_trait!.                                          *)
(*                                                                         *)
(* An invocation expands, inside a fresh block, into item declarations     *)
(* (trait A, struct B<T>), three impls (Deref for B<T>, A for B<T> where   *)
(* T: $trait, A for ()) and the method call B::<$type>(..).is().  The      *)
(* model keeps the crate-wide tables of items and impls that expansions    *)
(* add to, resolves the names of the expansion in the scope where the      *)
(* tokens end up (block first, then the enclosing module: macro_rules      *)
(* hygiene covers locals and labels only, not items), and resolves the     *)
(* method call by the receiver probing order of method lookup: for each    *)
(* type of the autoderef chain, by value, then by &, then by &mut, over    *)
(* the traits in scope.                                                    *)
(***************************************************************************)
EXTENDS Naturals, Sequences, FiniteSets, TLC

\* ---------------------------------------------------------------- bounds
MaxInv == 2

\* ------------------------------------------------------ caller's program
\* Type references a caller passes as $type:ty
TypeRefs == {"Thing", "B", "str", "()"}

\* Trait references a caller passes as $trait:path, <<name, generic argument>>
TraitRefs == {<<"A", "-">>, <<"Bound", "f64">>, <<"Bound", "i32">>}

\* impl blocks the caller's program may declare
Declarable ==
    { <<"Thing", <<"Bound", "f64">>>>, <<"str", <<"A", "-">>>> }

\* Items the caller's module declares (scope 0 is the enclosing module)
ModuleItems ==
    { [scope |-> 0, name |-> "Thing", kind |-> "struct", generics |-> 0, sizedParam |-> FALSE],
      [scope |-> 0, name |-> "B", kind |-> "struct", generics |-> 0, sizedParam |-> FALSE],
      [scope |-> 0, name |-> "A", kind |-> "trait", generics |-> 0, sizedParam |-> FALSE],
      [scope |-> 0, name |-> "Bound", kind |-> "trait", generics |-> 1, sizedParam |-> FALSE] }

\* A trait of the call site's scope that also has a method named is:
\*   trait Evil { fn is(self) -> bool; }  impl<T> Evil for T { .. false .. }
Evil == [name |-> "Evil", recv |-> "value", ret |-> FALSE, isConst |-> FALSE]

\* The traits with a method named is that a call site may have in scope
CallSiteScopes == { {}, {Evil} }

VARIABLES userImpls, items, derefs, impls, invs

vars == <<userImpls, items, derefs, impls, invs>>

\* ------------------------------------------------------- name resolution
NoItem == [scope |-> 0, name |-> "?", kind |-> "none", generics |-> 0, sizedParam |-> FALSE]

\* A name is looked up in the innermost scope first: the block, then the module
Lookup(its, blk, name) ==
    LET inner == {i \in its : i.scope = blk /\ i.name = name}
        outer == {i \in its : i.scope = 0 /\ i.name = name}
    IN  IF inner # {} THEN CHOOSE i \in inner : TRUE
        ELSE IF outer # {} THEN CHOOSE i \in outer : TRUE
        ELSE NoItem

ErrorTy == [k |-> "error", scope |-> 0, name |-> "?", arg |-> "-"]
UnitTy == [k |-> "unit", scope |-> 0, name |-> "()", arg |-> "-"]

\* $type as a type, resolved in scope blk
ResolveType(its, blk, ty) ==
    IF ty = "()" THEN UnitTy
    ELSE IF ty = "str" THEN [k |-> "prim", scope |-> 0, name |-> "str", arg |-> "-"]
    ELSE LET it == Lookup(its, blk, ty)
         IN  IF it.kind = "struct" /\ it.generics = 0
             THEN [k |-> "adt", scope |-> it.scope, name |-> it.name, arg |-> "-"]
             ELSE ErrorTy

ErrorBound == [scope |-> 0, name |-> "?", targ |-> "-"]

\* $trait as a bound, resolved in scope blk
ResolveBound(its, blk, tr) ==
    LET it == Lookup(its, blk, tr[1])
        n == IF tr[2] = "-" THEN 0 ELSE 1
    IN  IF it.kind = "trait" /\ it.generics = n
        THEN [scope |-> it.scope, name |-> it.name, targ |-> tr[2]]
        ELSE ErrorBound

Sized(ty) == ty # "str"


\* ------------------------------------------------------------ expansions
\* Variant: every expansion declares its items in one and the same scope
BlockScope_Shared(n) == 1

\* The macro body is a block {{ .. }}: the n-th expansion's items live in
\* a scope of their own
BlockScope(n) == n

\* is_trait!: trait A { fn is(&self) -> bool; } and struct B<T: ?Sized>(..)
IsTraitItems(blk) ==
    { [scope |-> blk, name |-> "A", kind |-> "trait", generics |-> 0, sizedParam |-> FALSE],
      [scope |-> blk, name |-> "B", kind |-> "struct", generics |-> 1, sizedParam |-> FALSE] }

\* is_trait!: impl<T: ?Sized> core::ops::Deref for B<T> { type Target = (); }
IsTraitDeref(blk) ==
    [carrier |-> blk, target |-> "unit", isConst |-> FALSE, sizedParam |-> FALSE]

\* is_trait!: impl<T: ?Sized> A for B<T> where T: $trait { fn is(&self) { true } }
IsTraitImplB(blk, bound) ==
    [trait |-> <<blk, "A">>, self |-> "carrier", bound |-> bound, recv |-> "ref",
     ret |-> TRUE, isConst |-> FALSE, sizedParam |-> FALSE]

\* is_trait!: impl A for () { fn is(&self) { false } }
IsTraitImplUnit(blk) ==
    [trait |-> <<blk, "A">>, self |-> "unit", bound |-> ErrorBound, recv |-> "ref",
     ret |-> FALSE, isConst |-> FALSE, sizedParam |-> FALSE]

\* const_is_trait!: trait A and struct B<T: ?Sized>
ConstIsTraitItems(blk) ==
    { [scope |-> blk, name |-> "A", kind |-> "trait", generics |-> 0, sizedParam |-> FALSE],
      [scope |-> blk, name |-> "B", kind |-> "struct", generics |-> 1, sizedParam |-> FALSE] }

\* Variant: the Deref impl of const_is_trait! without the const keyword
ConstIsTraitDeref_NotConst(blk) ==
    [carrier |-> blk, target |-> "unit", isConst |-> FALSE, sizedParam |-> FALSE]

\* const_is_trait!: impl<T: ?Sized> const core::ops::Deref for B<T>
ConstIsTraitDeref(blk) ==
    [carrier |-> blk, target |-> "unit", isConst |-> TRUE, sizedParam |-> FALSE]

\* const_is_trait!: impl<T: ?Sized> const A for B<T> where T: $trait { true }
ConstIsTraitImplB(blk, bound) ==
    [trait |-> <<blk, "A">>, self |-> "carrier", bound |-> bound, recv |-> "ref",
     ret |-> TRUE, isConst |-> TRUE, sizedParam |-> FALSE]

\* Variant: the fallback impl of const_is_trait! answering true
ConstIsTraitImplUnit_ReturnsTrue(blk) ==
    [trait |-> <<blk, "A">>, self |-> "unit", bound |-> ErrorBound, recv |-> "ref",
     ret |-> TRUE, isConst |-> TRUE, sizedParam |-> FALSE]

\* const_is_trait!: impl const A for () { false }
ConstIsTraitImplUnit(blk) ==
    [trait |-> <<blk, "A">>, self |-> "unit", bound |-> ErrorBound, recv |-> "ref",
     ret |-> FALSE, isConst |-> TRUE, sizedParam |-> FALSE]

\* The tables after expanding macro in block blk with $trait = tr.  The
\* where-clause T: $trait is resolved where it stands: inside the block,
\* after the block's own items are declared.
Expansion(macro, blk, tr, its, drfs, imps) ==
    LET newItems == its \cup (IF macro = "is_trait" THEN IsTraitItems(blk)
                                                   ELSE ConstIsTraitItems(blk))
        bound == ResolveBound(newItems, blk, tr)
    IN  [items |-> newItems,
         derefs |-> drfs \cup {IF macro = "is_trait" THEN IsTraitDeref(blk)
                                                    ELSE ConstIsTraitDeref(blk)},
         impls |-> imps \cup (IF macro = "is_trait"
                              THEN {IsTraitImplB(blk, bound), IsTraitImplUnit(blk)}
                              ELSE {ConstIsTraitImplB(blk, bound), ConstIsTraitImplUnit(blk)})]

\* --------------------------------------------------------- method lookup
\* Does the type named arg satisfy the bound?
Holds(arg, bound, imps, ui) ==
    IF bound = ErrorBound THEN FALSE
    ELSE IF bound.scope = 0 THEN <<arg, <<bound.name, bound.targ>>>> \in ui
    ELSE \E im \in imps : /\ im.trait = <<bound.scope, bound.name>>
                          /\ im.self = "unit"
                          /\ arg = "()"

\* Does the impl im give its trait to the type ty?
ImplApplies(im, ty, imps, ui) ==
    IF im.self = "unit" THEN ty.k = "unit"
    ELSE /\ ty.k = "adt"
         /\ ty.name = "B"
         /\ ty.scope = im.trait[1]
         /\ (im.sizedParam => Sized(ty.arg))
         /\ Holds(ty.arg, im.bound, imps, ui)

\* The Deref impls that apply to the receiver type
DerefsOf(ty, drfs) ==
    {d \in drfs : /\ ty.k = "adt"
                  /\ ty.name = "B"
                  /\ d.carrier = ty.scope
                  /\ (d.sizedParam => Sized(ty.arg))}

\* The receiver types method lookup tries: the type, then its Deref target
AutoderefChain(recv, drfs) ==
    IF DerefsOf(recv, drfs) # {} THEN <<recv, UnitTy>> ELSE <<recv>>

Adjustments == <<"value", "ref", "mut">>

\* For every type of the chain in order: by value, by &, by &mut
ProbeOrder(chain) ==
    [i \in 1..(3 * Len(chain)) |->
        [ty |-> chain[((i - 1) \div 3) + 1],
         adj |-> Adjustments[((i - 1) % 3) + 1],
         nderef |-> (i - 1) \div 3]]

\* The methods named is that apply at probe position p, for a call in block
\* blk whose call site has the traits ctx in scope.  A's method takes &self;
\* a blanket impl of a by-value method applies to whatever receiver is tried.
Candidates(p, blk, ctx, imps, ui) ==
    {[src |-> "impl", who |-> im.self, ret |-> im.ret, isConst |-> im.isConst] :
        im \in {x \in imps : /\ x.trait[1] = blk
                             /\ x.recv = p.adj
                             /\ ImplApplies(x, p.ty, imps, ui)}}
    \cup
    {[src |-> "ctx", who |-> c.name, ret |-> c.ret, isConst |-> c.isConst] :
        c \in {x \in ctx : x.recv = "value" \/ x.recv = p.adj}}

NoPick == [src |-> "none", who |-> "-", ret |-> FALSE, isConst |-> FALSE]

\* B::<$type>(core::marker::PhantomData).is() in block blk
Resolve(macro, ty, ctx, blk, its, drfs, imps, ui) ==
    LET tyR == ResolveType(its, blk, ty)
        carrierItem == Lookup(its, blk, "B")
        recv == [k |-> "adt", scope |-> blk, name |-> "B", arg |-> ty]
        dfs == DerefsOf(recv, drfs)
        order == ProbeOrder(AutoderefChain(recv, drfs))
        implB == {x \in imps : x.trait[1] = blk /\ x.self = "carrier"}
        bound == IF implB = {} THEN ErrorBound ELSE (CHOOSE x \in implB : TRUE).bound
        wellFormed == /\ tyR # ErrorTy
                      /\ \A x \in implB : x.bound # ErrorBound
                      /\ (carrierItem.sizedParam => Sized(ty))
        cs == [i \in 1..Len(order) |-> Candidates(order[i], blk, ctx, imps, ui)]
        hits == {i \in 1..Len(cs) : cs[i] # {}}
        at == IF hits = {} THEN Len(cs)
              ELSE CHOOSE i \in hits : \A j \in hits : i <= j
        pick == IF Cardinality(cs[at]) = 1 THEN CHOOSE c \in cs[at] : TRUE ELSE NoPick
        constOk == /\ pick.isConst
                   /\ \A d \in dfs : order[at].nderef > 0 => d.isConst
    IN  [tyR |-> tyR,
         bound |-> bound,
         trace |-> IF wellFormed
                   THEN [i \in 1..at |-> [k |-> order[i].ty.k, adj |-> order[i].adj,
                                          n |-> Cardinality(cs[i])]]
                   ELSE <<>>,
         pick |-> IF wellFormed THEN pick ELSE NoPick,
         outcome |-> IF tyR = ErrorTy \/ \E x \in implB : x.bound = ErrorBound
                     THEN "err_resolve"
                     ELSE IF carrierItem.sizedParam /\ ~Sized(ty) THEN "err_sized"
                     ELSE IF hits = {} THEN "err_nomethod"
                     ELSE IF Cardinality(cs[at]) > 1 THEN "err_ambiguous"
                     ELSE IF macro = "const_is_trait" /\ ~constOk THEN "err_const"
                     ELSE IF pick.ret THEN "true" ELSE "false"]

\* ---------------------------------------------------------------- system
Init ==
    /\ userImpls \in SUBSET Declarable
    /\ items = ModuleItems
    /\ derefs = {}
    /\ impls = {}
    /\ invs = <<>>

\* One invocation of macro at a call site with the traits ctx in scope
Invoke(macro, ty, tr, ctx) ==
    /\ Len(invs) < MaxInv
    /\ \E blk \in {BlockScope(Len(invs) + 1)} :
       \E e \in {Expansion(macro, blk, tr, items, derefs, impls)} :
       \E r \in {Resolve(macro, ty, ctx, blk, e.items, e.derefs, e.impls, userImpls)} :
           /\ items' = e.items
           /\ derefs' = e.derefs
           /\ impls' = e.impls
           /\ invs' = Append(invs, [macro |-> macro, ty |-> ty, tr |-> tr, ctx |-> ctx,
                                    blk |-> blk, tyR |-> r.tyR, bound |-> r.bound,
                                    trace |-> r.trace, pick |-> r.pick,
                                    outcome |-> r.outcome])
    /\ UNCHANGED userImpls

\* is_trait!($type, $trait) in an expression position
IsTrait ==
    \E ty \in TypeRefs, tr \in TraitRefs, ctx \in CallSiteScopes :
        Invoke("is_trait", ty, tr, ctx)

\* const_is_trait!($type, $trait) in a position that requires a constant
ConstIsTrait ==
    \E ty \in TypeRefs, tr \in TraitRefs, ctx \in CallSiteScopes :
        Invoke("const_is_trait", ty, tr, ctx)

Next == IsTrait \/ ConstIsTrait

Spec == Init /\ [][Next]_vars


\* ---------------------------------------------------------------- claims
Done == 1..Len(invs)

IsBool(o) == o \in {"true", "false"}

\* What the caller's program declares about ty and tr
Implements(ty, tr) == <<ty, tr>> \in userImpls

BoolOf(b) == IF b THEN "true" ELSE "false"

\* The tables if the invocation's expansion were the only one of the crate,
\* and the invocation's result in given tables
AloneTables(inv) == Expansion(inv.macro, inv.blk, inv.tr, ModuleItems, {}, {})

ResolveIn(inv, e) ==
    Resolve(inv.macro, inv.ty, inv.ctx, inv.blk, e.items, e.derefs, e.impls, userImpls)

\* C1: whenever the caller's program declares an implementation of I for T,
\* is_trait!(T, I) evaluates to true.
C1_Soundness ==
    \A i \in Done :
        (invs[i].macro = "is_trait" /\ Implements(invs[i].ty, invs[i].tr))
            => invs[i].outcome = "true"

\* C2: whenever no implementation of I for T exists, is_trait!(T, I)
\* compiles and evaluates to false.
C2_Completeness ==
    \A i \in Done :
        (invs[i].macro = "is_trait" /\ ~Implements(invs[i].ty, invs[i].tr))
            => invs[i].outcome = "false"

\* C3: at one call site, whenever is_trait!(T, I) and const_is_trait!(T, I)
\* are both legal, they yield the same boolean.
C3_ConstRuntimeEquivalence ==
    \A i, j \in Done :
        (/\ invs[i].macro = "is_trait"
         /\ invs[j].macro = "const_is_trait"
         /\ invs[i].ty = invs[j].ty
         /\ invs[i].tr = invs[j].tr
         /\ invs[i].ctx = invs[j].ctx
         /\ IsBool(invs[i].outcome)
         /\ IsBool(invs[j].outcome))
            => invs[i].outcome = invs[j].outcome

\* C3 witness: both macros were invoked on a pair the type implements and on
\* no interfering call site, and both answered true.
C3_Witness ==
    \E i, j \in Done :
        /\ invs[i].macro = "is_trait"
        /\ invs[j].macro = "const_is_trait"
        /\ invs[i].ty = invs[j].ty
        /\ invs[i].tr = invs[j].tr
        /\ invs[i].ctx = invs[j].ctx
        /\ Implements(invs[i].ty, invs[i].tr)
        /\ invs[i].outcome = "true"
        /\ invs[j].outcome = "true"

\* C4: is_trait!(T, I) for fixed T and I yields the same boolean at every
\* invocation, whatever the order of invocations and whatever else is in
\* scope at the call site.
C4_Determinism ==
    \A i, j \in Done :
        (/\ invs[i].macro = "is_trait"
         /\ invs[j].macro = "is_trait"
         /\ invs[i].ty = invs[j].ty
         /\ invs[i].tr = invs[j].tr)
            => invs[i].outcome = invs[j].outcome

\* C5: the items A and B of an expansion stay inside its block, and $type
\* and $trait inside the expansion denote what they denote at the call site.
C5_Freshness ==
    /\ {it \in items : it.scope = 0} = ModuleItems
    /\ \A i \in Done :
        /\ invs[i].tyR = ResolveType(ModuleItems, 0, invs[i].ty)
        /\ invs[i].bound = ResolveBound(ModuleItems, 0, invs[i].tr)

\* C6: invocations do not interfere: an expansion declares its items in its
\* own block only, leaves the module's items alone, and every invocation
\* yields the result it would yield if it were the only invocation.
C6_Isolation ==
    /\ {it \in items : it.scope = 0} = ModuleItems
    /\ \A i, j \in Done : i # j => invs[i].blk # invs[j].blk
    /\ \A i \in Done : \E e \in {AloneTables(invs[i])} : \E a \in {ResolveIn(invs[i], e)} :
        /\ invs[i].outcome = a.outcome
        /\ invs[i].pick = a.pick
        /\ invs[i].trace = a.trace

\* C6 witness: two invocations on different (T, I) pairs, one answering true
\* and the other false.
C6_Witness ==
    \E i, j \in Done :
        /\ i < j
        /\ <<invs[i].ty, invs[i].tr>> # <<invs[j].ty, invs[j].tr>>
        /\ invs[i].outcome = "true"
        /\ invs[j].outcome = "false"
        /\ invs[j].pick.who = "unit"

C8_ExactBound ==
    \A i \in Done :
        (invs[i].macro = "is_trait" /\ invs[i].tr[1] = "Bound") =>
            /\ invs[i].bound = [scope |-> 0, name |-> "Bound", targ |-> invs[i].tr[2]]
            /\ invs[i].outcome = BoolOf(Implements(invs[i].ty, invs[i].tr))

\* C9: for the unsized type str both macros expand to a well-formed
\* expression that is true exactly when str implements the trait.
C9_Unsized ==
    \A i \in Done :
        ~Sized(invs[i].ty) =>
            invs[i].outcome = BoolOf(Implements(invs[i].ty, invs[i].tr))

\* C10: lookup tries the carrier's impl before the impl reached through
\* Deref; when T satisfies the bound of the expansion the carrier's impl
\* (true) is selected; the fallback on () is selected only after the
\* carrier's impl was tried and found not to apply.
C10_ResolutionPrecedence ==
    \A i \in Done :
        ~(invs[i].outcome \in {"err_resolve", "err_sized"}) =>
            /\ Holds(invs[i].ty, invs[i].bound, impls, userImpls)
                  => (invs[i].pick.who = "carrier" /\ invs[i].pick.ret)
            /\ invs[i].pick.who = "unit"
                  => \E k \in 1..(Len(invs[i].trace) - 1) :
                        /\ invs[i].trace[k].k = "adt"
                        /\ invs[i].trace[k].adj = "ref"
                        /\ invs[i].trace[k].n = 0

====
